---- MODULE Spec2Model ----
(***************************************************************************)
(* Model of the BLS12 pairing request pipeline of                          *)
(* src/src/public_interface/pairing_ops.rs (PublicPairingApi::pair,        *)
(* PairingApiImplementation::pair and ::pair_bls12) and of the differential*)
(* harness of src/fuzz/fuzz_targets/fuzz_target_compare.rs.                *)
(*                                                                         *)
(* A request is a byte string.  The pipeline is a sequential program; its  *)
(* position is pc, the unread part of the input is rest.  Arithmetic in Fp *)
(* and Fp2 is computed; the Frobenius calculators, the subgroup check and  *)
(* the pairing engine are collaborators whose outcome is chosen            *)
(* nondeterministically among the values their return type allows.         *)
(***************************************************************************)
EXTENDS Integers, Sequences, FiniteSets, TLC

\* ------------------------------------------------------------------ bounds
\* Largest pair_count byte the generated payloads declare.
MaxPairs == 2

\* ------------------------------------------------- constants (constants.rs)
CURVE_TYPE_LENGTH == 1
TWIST_TYPE_LENGTH == 1
SIGN_ENCODING_LENGTH == 1
BYTES_FOR_LENGTH_ENCODING == 1
BLS12 == 1
TWIST_TYPE_M == 1
TWIST_TYPE_D == 2
SIGN_PLUS == 0
SIGN_MINUS == 1

\* ------------------------------------------------------------ byte slices
Take(s, n) == SubSeq(s, 1, n)
Drop(s, n) == SubSeq(s, n + 1, Len(s))

\* Big-endian magnitude of a byte sequence.
RECURSIVE BigEndian(_)
BigEndian(s) ==
    IF s = <<>> THEN 0 ELSE 256 * BigEndian(Take(s, Len(s) - 1)) + s[Len(s)]

RECURSIVE Bits(_)
Bits(n) == IF n = 0 THEN 0 ELSE 1 + Bits(n \div 2)

\* ---------------------------------------------------------------- results
NoResult == [kind |-> "None", err |-> "", out |-> <<>>]
Err(e) == [kind |-> "Err", err |-> e, out |-> <<>>]
Ok(o) == [kind |-> "Ok", err |-> "", out |-> o]
Panic == [kind |-> "Panic", err |-> "", out |-> <<>>]

DecodeFail == [ok |-> FALSE, val |-> 0, len |-> 0, rest |-> <<>>]

\* --------------------------------------------------------- BinaryDecoder
\* One length byte, then that many magnitude bytes.
decode_biguint_with_length(bs) ==
    IF Len(bs) < BYTES_FOR_LENGTH_ENCODING THEN DecodeFail
    ELSE LET n == bs[1]
             r == Drop(bs, BYTES_FOR_LENGTH_ENCODING)
         IN IF Len(r) < n THEN DecodeFail
            ELSE [ok |-> TRUE, val |-> BigEndian(Take(r, n)), len |-> n,
                  rest |-> Drop(r, n)]

\* A base-field element: modulus_len bytes, big-endian.
decode_fp(bs, modulus_len) ==
    IF Len(bs) < modulus_len THEN DecodeFail
    ELSE [ok |-> TRUE, val |-> BigEndian(Take(bs, modulus_len)),
          len |-> modulus_len, rest |-> Drop(bs, modulus_len)]

\* An Fp2 element: c0 then c1, each a base-field element.
decode_fp2(bs, modulus_len) ==
    LET c0 == decode_fp(bs, modulus_len)
        c1 == decode_fp(c0.rest, modulus_len)
    IN IF c0.ok /\ c1.ok
       THEN [ok |-> TRUE, val |-> <<c0.val, c1.val>>, len |-> 2 * modulus_len,
             rest |-> c1.rest]
       ELSE [ok |-> FALSE, val |-> <<0, 0>>, len |-> 0, rest |-> <<>>]

parse_base_field_from_encoding(bs) == decode_biguint_with_length(bs)

parse_ab_in_base_field_from_encoding(bs, modulus_len) ==
    LET a == decode_fp(bs, modulus_len)
        b == decode_fp(a.rest, modulus_len)
    IN [ok |-> a.ok /\ b.ok, a |-> a.val, b |-> b.val, rest |-> b.rest]

parse_group_order_from_encoding(bs) == decode_biguint_with_length(bs)

\* A G1 point: x then y.
decode_g1_point_from_xy(bs, modulus_len) ==
    LET px == decode_fp(bs, modulus_len)
        py == decode_fp(px.rest, modulus_len)
    IN [ok |-> px.ok /\ py.ok, val |-> <<px.val, py.val>>, rest |-> py.rest]

\* A G2 point: x then y, each an Fp2 element.
decode_g2_point_from_xy_in_fp2(bs, modulus_len) ==
    LET px == decode_fp2(bs, modulus_len)
        py == decode_fp2(px.rest, modulus_len)
    IN [ok |-> px.ok /\ py.ok, val |-> <<px.val, py.val>>, rest |-> py.rest]

\* The pre-parse of the public entry point: modulus, A, B, order.
parse_encodings(bs) ==
    LET m == parse_base_field_from_encoding(bs)
        ab == parse_ab_in_base_field_from_encoding(m.rest, m.len)
        o == parse_group_order_from_encoding(ab.rest)
    IN IF m.ok /\ ab.ok /\ o.ok
       THEN [ok |-> TRUE, modulus |-> m.val, order |-> o.val]
       ELSE [ok |-> FALSE, modulus |-> 0, order |-> 0]

\* ---------------------------------------------------------- LimbDispatcher
Limbs(n) == (Bits(n) \div 64) + 1
SupportedLimbs == 1..16
expand_for_modulus_and_group_limbs(modulus_limbs, order_limbs) ==
    modulus_limbs \in SupportedLimbs /\ order_limbs \in SupportedLimbs

\* ------------------------------------------------------- field arithmetic
None == <<>>
Some(v) == <<v>>

FpMul(a, b, p) == (a * b) % p
FpAdd(a, b, p) == (a + b) % p
FpSub(a, b, p) == (a - b) % p
FpIsZero(a) == a = 0
FpInverse(a, p) ==
    IF \E v \in 1..(p - 1) : FpMul(a, v, p) = 1
    THEN Some(CHOOSE v \in 1..(p - 1) : FpMul(a, v, p) = 1)
    ELSE None

\* Fp2 = Fp[u] / (u^2 - nr); an element is <<c0, c1>>.
Fp2Zero == <<0, 0>>
Fp2One == <<1, 0>>
Fp2Mul(a, b, nr, p) ==
    << FpAdd(FpMul(a[1], b[1], p), FpMul(nr, FpMul(a[2], b[2], p), p), p),
       FpAdd(FpMul(a[1], b[2], p), FpMul(a[2], b[1], p), p) >>
Fp2Add(a, b, p) == << FpAdd(a[1], b[1], p), FpAdd(a[2], b[2], p) >>
Fp2MulByFp(a, k, p) == << FpMul(a[1], k, p), FpMul(a[2], k, p) >>
Fp2Inverse(a, nr, p) ==
    IF a = Fp2Zero THEN None
    ELSE LET norm == FpSub(FpMul(a[1], a[1], p),
                           FpMul(nr, FpMul(a[2], a[2], p), p), p)
             ninv == FpInverse(norm, p)
         IN IF ninv = None THEN None
            ELSE Some(<< FpMul(a[1], ninv[1], p),
                         FpMul(FpSub(0, a[2], p), ninv[1], p) >>)

\* Fp12 elements are 12-tuples of base-field coefficients.
Fp12One == <<1, 0, 0, 0, 0, 0, 0, 0, 0, 0, 0, 0>>
Fp12Zero == <<0, 0, 0, 0, 0, 0, 0, 0, 0, 0, 0, 0>>

\* y^2 = x^3 + a x + b over Fp and over Fp2.
G1OnCurve(pt, a, b, p) ==
    FpMul(pt[2], pt[2], p) =
        FpAdd(FpAdd(FpMul(pt[1], FpMul(pt[1], pt[1], p), p), FpMul(a, pt[1], p), p), b, p)
G2OnCurve(pt, a, b, nr, p) ==
    Fp2Mul(pt[2], pt[2], nr, p) =
        Fp2Add(Fp2Add(Fp2Mul(pt[1], Fp2Mul(pt[1], pt[1], nr, p), nr, p),
                      Fp2Mul(a, pt[1], nr, p), p), b, p)


\* ------------------------------------------------------------------ state
VARIABLES
    bytes,            \* the request payload
    pc,               \* position of the pipeline
    rest,             \* the unread part of the payload
    result,           \* what pair returned (or the panic that ended it)
    modulus, modulus_len, a_fp, b_fp, order,
    fp_non_residue, fp2_non_residue,
    twist_byte, twist_type,
    frobenius,        \* outcome of the coefficient computation per tower level
    g1_curve, g2_curve,
    x, x_is_negative, num_pairs,
    g1_points, g2_points,
    checks,           \* outcome of the point checks of every decoded pair
    engine,           \* the pairing engine's call and what it returned
    data, native, cpp, harness   \* the differential harness

decoded == << modulus, modulus_len, a_fp, b_fp, order, fp_non_residue,
              fp2_non_residue, twist_byte, twist_type, g1_curve, g2_curve,
              x, x_is_negative, num_pairs >>
points == << g1_points, g2_points, checks >>
fuzz == << data, native, cpp, harness >>
pipeline == << bytes, pc, rest, result, decoded, frobenius, points, engine >>
vars == << pipeline, fuzz >>

\* ---------------------------------------------------------------- inputs
\* Field values of the generated requests.  Every length prefix is honoured
\* byte by byte; field elements are kept below the modulus, and the moduli
\* and orders fit one limb, so the dispatch always finds an implementation.
CurveTypes == {BLS12, 2}
Moduli == {7}
ACoeffs == {0, 1}
BCoeffs == {2}
Orders == {3}
FpNonResidues == {6}
Fp2NonResidues == {<<0, 0>>, <<1, 1>>}
TwistBytes == {TWIST_TYPE_M, TWIST_TYPE_D, 3}
XEncodings == {<<1, 2>>, <<2, 1, 0>>}
SignBytes == {SIGN_PLUS, SIGN_MINUS, 2}
G1Encodings == {<<0, 3>>, <<0, 2>>}
G2Encodings == {<<0, 0, 2, 4>>, <<0, 0, 3, 1>>}
Fp12Samples == {Fp12One, Fp12Zero, <<1, 1, 0, 0, 0, 0, 0, 0, 0, 0, 0, 0>>}

RECURSIVE EncodePairs(_)
EncodePairs(ps) ==
    IF ps = <<>> THEN <<>>
    ELSE ps[1][1] \o ps[1][2] \o EncodePairs(Tail(ps))

EncodeRequest(ct, m, a, b, o, nr, nr2, tw, xe, sg, n, ps) ==
    <<ct>> \o <<1, m>> \o <<a, b>> \o <<1, o>> \o <<nr>> \o nr2 \o <<tw>>
        \o xe \o <<sg>> \o <<n>> \o EncodePairs(ps)

Idle == /\ data = <<>>
        /\ native = NoResult
        /\ cpp = NoResult
        /\ harness = [at |-> "idle", printed |-> <<>>]

Undecoded ==
    /\ modulus = 0 /\ modulus_len = 0 /\ a_fp = 0 /\ b_fp = 0 /\ order = 0
    /\ fp_non_residue = 0 /\ fp2_non_residue = Fp2Zero
    /\ twist_byte = 0 /\ twist_type = "none"
    /\ frobenius = [fp2 |-> "none", fp6 |-> "none", fp12 |-> "none"]
    /\ g1_curve = None /\ g2_curve = None
    /\ x = 0 /\ x_is_negative = FALSE /\ num_pairs = 0
    /\ g1_points = <<>> /\ g2_points = <<>> /\ checks = <<>>
    /\ engine = [called |-> FALSE, g1 |-> <<>>, g2 |-> <<>>, result |-> None]

\* A request is every combination of the field values above with 0..MaxPairs
\* point pairs, or any prefix of one.
Init ==
    /\ \E ct \in CurveTypes, m \in Moduli, a \in ACoeffs, b \in BCoeffs,
          o \in Orders, nr \in FpNonResidues, nr2 \in Fp2NonResidues,
          tw \in TwistBytes, xe \in XEncodings, sg \in SignBytes, n \in 0..MaxPairs :
          \E ps \in [1..n -> G1Encodings \X G2Encodings] :
             LET request == EncodeRequest(ct, m, a, b, o, nr, nr2, tw, xe, sg, n, ps)
             IN \E cut \in 0..Len(request) : bytes = Take(request, cut)
    /\ pc = "start"
    /\ rest = bytes
    /\ result = NoResult
    /\ Undecoded
    /\ Idle

\* ---------------------------------------------------------------- helpers
Return(r) == /\ result' = r
             /\ pc' = "done"

\* --------------------------------------------------- PublicPairingApi::pair
\* Length check, pre-parse of modulus and order, dispatch on the limb counts.
PublicPair ==
    /\ pc = "start"
    /\ IF Len(bytes) < CURVE_TYPE_LENGTH
       THEN Return(Err("InputError"))
       ELSE LET enc == parse_encodings(Drop(bytes, CURVE_TYPE_LENGTH))
            IN IF ~enc.ok
               THEN Return(Err("InputError"))
               ELSE IF ~expand_for_modulus_and_group_limbs(Limbs(enc.modulus),
                                                           Limbs(enc.order))
                    THEN Return(Err("InputError"))
                    ELSE /\ pc' = "impl"
                         /\ result' = result
    /\ UNCHANGED << bytes, rest, decoded, frobenius, points, engine, fuzz >>

\* ------------------------------------- PairingApiImplementation::pair
\* The curve types the generic implementation handles.
CurveTypeImplemented(curve_type) == curve_type = BLS12

ImplPair ==
    /\ pc = "impl"
    /\ IF Len(bytes) < CURVE_TYPE_LENGTH
       THEN Return(Err("InputError")) /\ rest' = rest
       ELSE IF CurveTypeImplemented(bytes[1])
            THEN /\ pc' = "base_field"
                 /\ rest' = Drop(bytes, CURVE_TYPE_LENGTH)
                 /\ result' = result
            ELSE Return(Panic) /\ rest' = rest
    /\ UNCHANGED << bytes, decoded, frobenius, points, engine, fuzz >>

\* ------------------------------- PairingApiImplementation::pair_bls12
ParseBaseField ==
    /\ pc = "base_field"
    /\ LET d == parse_base_field_from_encoding(rest)
       IN IF ~d.ok
          THEN Return(Err("InputError"))
               /\ UNCHANGED << rest, modulus, modulus_len >>
          ELSE /\ modulus' = d.val
               /\ modulus_len' = d.len
               /\ rest' = d.rest
               /\ pc' = "ab"
               /\ result' = result
    /\ UNCHANGED << bytes, a_fp, b_fp, order, fp_non_residue, fp2_non_residue,
                    twist_byte, twist_type, g1_curve, g2_curve, x,
                    x_is_negative, num_pairs, frobenius, points, engine, fuzz >>

\* Faulty variant: the check of A is left out.
AIsAdmissibleAny(a) == TRUE

\* The base curve's A coefficient the BLS12 family admits.
AIsAdmissible(a) == FpIsZero(a)

ParseAB ==
    /\ pc = "ab"
    /\ LET d == parse_ab_in_base_field_from_encoding(rest, modulus_len)
       IN IF ~d.ok
          THEN Return(Err("InputError")) /\ UNCHANGED << rest, a_fp, b_fp >>
          ELSE /\ a_fp' = d.a
               /\ b_fp' = d.b
               /\ rest' = d.rest
               /\ IF ~AIsAdmissible(d.a)
                  THEN Return(Err("UnknownParameter"))
                  ELSE pc' = "group_order" /\ result' = result
    /\ UNCHANGED << bytes, modulus, modulus_len, order, fp_non_residue,
                    fp2_non_residue, twist_byte, twist_type, g1_curve, g2_curve,
                    x, x_is_negative, num_pairs, frobenius, points, engine, fuzz >>

ParseGroupOrder ==
    /\ pc = "group_order"
    /\ LET d == parse_group_order_from_encoding(rest)
       IN IF ~d.ok
          THEN Return(Err("InputError")) /\ UNCHANGED << rest, order, g1_curve >>
          ELSE /\ order' = d.val
               /\ rest' = d.rest
               /\ g1_curve' = Some([a |-> a_fp, b |-> b_fp])
               /\ pc' = "fp_non_residue"
               /\ result' = result
    /\ UNCHANGED << bytes, modulus, modulus_len, a_fp, b_fp, fp_non_residue,
                    fp2_non_residue, twist_byte, twist_type, g2_curve,
                    x, x_is_negative, num_pairs, frobenius, points, engine, fuzz >>

DecodeFpNonResidue ==
    /\ pc = "fp_non_residue"
    /\ LET d == decode_fp(rest, modulus_len)
       IN IF ~d.ok
          THEN Return(Err("InputError")) /\ UNCHANGED << rest, fp_non_residue >>
          ELSE /\ fp_non_residue' = d.val
               /\ rest' = d.rest
               /\ pc' = "frobenius_fp2"
               /\ result' = result
    /\ UNCHANGED << bytes, modulus, modulus_len, a_fp, b_fp, order,
                    fp2_non_residue, twist_byte, twist_type, g1_curve, g2_curve,
                    x, x_is_negative, num_pairs, frobenius, points, engine, fuzz >>


\* frobenius_calculator_fp2: its Result's two outcomes.
FrobeniusFp2 ==
    /\ pc = "frobenius_fp2"
    /\ \E computed \in BOOLEAN :
         IF ~computed
         THEN /\ frobenius' = [frobenius EXCEPT !.fp2 = "failed"]
              /\ Return(Err("InputError"))
         ELSE /\ frobenius' = [frobenius EXCEPT !.fp2 = "ok"]
              /\ pc' = "fp2_non_residue"
              /\ result' = result
    /\ UNCHANGED << bytes, rest, decoded, points, engine, fuzz >>

\* Faulty variant: only one base-field element is read for the Fp6 non-residue.
DecodeFp2NonResidueAsFp(bs, len) ==
    LET c0 == decode_fp(bs, len)
    IN [ok |-> c0.ok, val |-> <<c0.val, 0>>, len |-> len, rest |-> c0.rest]

\* The Fp6 non-residue field: one Fp2 element.
DecodeFp2NonResidueField(bs, len) == decode_fp2(bs, len)

DecodeFp2NonResidue ==
    /\ pc = "fp2_non_residue"
    /\ LET d == DecodeFp2NonResidueField(rest, modulus_len)
       IN IF ~d.ok
          THEN Return(Err("InputError")) /\ UNCHANGED << rest, fp2_non_residue >>
          ELSE /\ fp2_non_residue' = d.val
               /\ rest' = d.rest
               /\ pc' = "twist_type"
               /\ result' = result
    /\ UNCHANGED << bytes, modulus, modulus_len, a_fp, b_fp, order,
                    fp_non_residue, twist_byte, twist_type, g1_curve, g2_curve,
                    x, x_is_negative, num_pairs, frobenius, points, engine, fuzz >>

\* Faulty variant: any byte other than the D tag is taken for an M-type twist.
TwistTypeOfDefaultM(encoding) ==
    IF encoding = TWIST_TYPE_D THEN "D" ELSE "M"

TwistTypeOf(encoding) ==
    IF encoding = TWIST_TYPE_D THEN "D"
    ELSE IF encoding = TWIST_TYPE_M THEN "M"
    ELSE "unknown"

DecodeTwistType ==
    /\ pc = "twist_type"
    /\ IF Len(rest) < TWIST_TYPE_LENGTH
       THEN Return(Err("InputError"))
            /\ UNCHANGED << rest, twist_byte, twist_type >>
       ELSE /\ twist_byte' = rest[1]
            /\ rest' = Drop(rest, TWIST_TYPE_LENGTH)
            /\ twist_type' = TwistTypeOf(rest[1])
            /\ IF TwistTypeOf(rest[1]) = "unknown"
               THEN Return(Err("UnknownParameter"))
               ELSE pc' = "frobenius_fp6" /\ result' = result
    /\ UNCHANGED << bytes, modulus, modulus_len, a_fp, b_fp, order,
                    fp_non_residue, fp2_non_residue, g1_curve, g2_curve,
                    x, x_is_negative, num_pairs, frobenius, points, engine, fuzz >>

\* frobenius_calculator_fp6_as_3_over_2_using_sliding_window
FrobeniusFp6 ==
    /\ pc = "frobenius_fp6"
    /\ \E computed \in BOOLEAN :
         IF ~computed
         THEN /\ frobenius' = [frobenius EXCEPT !.fp6 = "failed"]
              /\ Return(Err("UnknownParameter"))
         ELSE /\ frobenius' = [frobenius EXCEPT !.fp6 = "ok"]
              /\ pc' = "frobenius_fp12"
              /\ result' = result
    /\ UNCHANGED << bytes, rest, decoded, points, engine, fuzz >>

\* frobenius_calculator_fp12_using_sliding_window
FrobeniusFp12 ==
    /\ pc = "frobenius_fp12"
    /\ \E computed \in BOOLEAN :
         IF ~computed
         THEN /\ frobenius' = [frobenius EXCEPT !.fp12 = "failed"]
              /\ Return(Err("InputError"))
         ELSE /\ frobenius' = [frobenius EXCEPT !.fp12 = "ok"]
              /\ pc' = "twist_curve"
              /\ result' = result
    /\ UNCHANGED << bytes, rest, decoded, points, engine, fuzz >>

\* Faulty variant: the two arms of the twist transform are exchanged.
TwistBSwapped(twist, non_residue, non_residue_inv, b, p) ==
    IF twist = "D"
    THEN Fp2MulByFp(non_residue, b, p)
    ELSE Fp2MulByFp(non_residue_inv, b, p)

\* The twist's B from the base curve's B, the Fp6 non-residue and its inverse.
TwistB(twist, non_residue, non_residue_inv, b, p) ==
    IF twist = "D"
    THEN Fp2MulByFp(non_residue_inv, b, p)
    ELSE Fp2MulByFp(non_residue, b, p)

BuildTwistCurve ==
    /\ pc = "twist_curve"
    /\ LET fp2_non_residue_inv == Fp2Inverse(fp2_non_residue, fp_non_residue, modulus)
       IN IF fp2_non_residue_inv = None
          THEN Return(Err("UnexpectedZero")) /\ g2_curve' = g2_curve
          ELSE /\ g2_curve' = Some([a |-> Fp2Zero,
                                    b |-> TwistB(twist_type, fp2_non_residue,
                                                 fp2_non_residue_inv[1], b_fp, modulus)])
               /\ pc' = "x"
               /\ result' = result
    /\ UNCHANGED << bytes, rest, modulus, modulus_len, a_fp, b_fp, order,
                    fp_non_residue, fp2_non_residue, twist_byte, twist_type,
                    g1_curve, x, x_is_negative, num_pairs, frobenius, points,
                    engine, fuzz >>

DecodeX ==
    /\ pc = "x"
    /\ LET d == decode_biguint_with_length(rest)
       IN IF ~d.ok
          THEN Return(Err("InputError")) /\ UNCHANGED << rest, x >>
          ELSE /\ x' = d.val
               /\ rest' = d.rest
               /\ pc' = "x_sign"
               /\ result' = result
    /\ UNCHANGED << bytes, modulus, modulus_len, a_fp, b_fp, order,
                    fp_non_residue, fp2_non_residue, twist_byte, twist_type,
                    g1_curve, g2_curve, x_is_negative, num_pairs, frobenius,
                    points, engine, fuzz >>

DecodeXSign ==
    /\ pc = "x_sign"
    /\ IF Len(rest) < SIGN_ENCODING_LENGTH
       THEN Return(Err("InputError")) /\ UNCHANGED << rest, x_is_negative >>
       ELSE /\ rest' = Drop(rest, SIGN_ENCODING_LENGTH)
            /\ IF rest[1] = SIGN_PLUS
               THEN x_is_negative' = FALSE /\ pc' = "num_pairs" /\ result' = result
               ELSE IF rest[1] = SIGN_MINUS
               THEN x_is_negative' = TRUE /\ pc' = "num_pairs" /\ result' = result
               ELSE x_is_negative' = x_is_negative /\ Return(Err("InputError"))
    /\ UNCHANGED << bytes, modulus, modulus_len, a_fp, b_fp, order,
                    fp_non_residue, fp2_non_residue, twist_byte, twist_type,
                    g1_curve, g2_curve, x, num_pairs, frobenius, points,
                    engine, fuzz >>

DecodeNumPairs ==
    /\ pc = "num_pairs"
    /\ IF Len(rest) < BYTES_FOR_LENGTH_ENCODING
       THEN Return(Err("InputError")) /\ UNCHANGED << rest, num_pairs >>
       ELSE /\ num_pairs' = rest[1]
            /\ rest' = Drop(rest, BYTES_FOR_LENGTH_ENCODING)
            /\ pc' = "pairs"
            /\ result' = result
    /\ UNCHANGED << bytes, modulus, modulus_len, a_fp, b_fp, order,
                    fp_non_residue, fp2_non_residue, twist_byte, twist_type,
                    g1_curve, g2_curve, x, x_is_negative, frobenius, points,
                    engine, fuzz >>

\* Faulty variant: a pair is rejected only when both of its points are off curve.
NotOnCurveBoth(g1_on, g2_on) == ~g1_on /\ ~g2_on

NotOnCurve(g1_on, g2_on) == ~g1_on \/ ~g2_on
NotInSubgroup(g1_sub, g2_sub) == ~g1_sub \/ ~g2_sub

\* One iteration of the loop over the declared pairs.  check_correct_subgroup
\* is a collaborator: both of its answers are explored.
DecodePair ==
    /\ pc = "pairs"
    /\ Len(g1_points) < num_pairs
    /\ LET d1 == decode_g1_point_from_xy(rest, modulus_len)
           d2 == decode_g2_point_from_xy_in_fp2(d1.rest, modulus_len)
       IN IF ~d1.ok \/ ~d2.ok
          THEN Return(Err("InputError")) /\ UNCHANGED << rest, points >>
          ELSE \E g1_sub \in BOOLEAN, g2_sub \in BOOLEAN :
               LET g1_on == G1OnCurve(d1.val, g1_curve[1].a, g1_curve[1].b, modulus)
                   g2_on == G2OnCurve(d2.val, g2_curve[1].a, g2_curve[1].b,
                                      fp_non_residue, modulus)
               IN /\ rest' = d2.rest
                  /\ checks' = Append(checks, [g1 |-> d1.val, g2 |-> d2.val,
                                               g1_on |-> g1_on, g2_on |-> g2_on,
                                               g1_sub |-> g1_sub, g2_sub |-> g2_sub])
                  /\ IF NotOnCurve(g1_on, g2_on)
                     THEN Return(Err("InputError"))
                          /\ UNCHANGED << g1_points, g2_points >>
                     ELSE IF NotInSubgroup(g1_sub, g2_sub)
                     THEN Return(Err("InputError"))
                          /\ UNCHANGED << g1_points, g2_points >>
                     ELSE /\ g1_points' = Append(g1_points, d1.val)
                          /\ g2_points' = Append(g2_points, d2.val)
                          /\ pc' = pc
                          /\ result' = result
    /\ UNCHANGED << bytes, decoded, frobenius, engine, fuzz >>

\* Faulty variant: only the first coefficient is compared with one.
EncodeResultFirstCoefficient(pairing_result) ==
    IF pairing_result[1] = 1 THEN <<1>> ELSE <<0>>

\* The one-byte encoding of the pairing predicate.
EncodeResult(pairing_result) ==
    IF pairing_result = Fp12One THEN <<1>> ELSE <<0>>

\* Bls12Instance::pair is a collaborator returning Option<Fp12>.
EnginePair ==
    /\ pc = "pairs"
    /\ Len(g1_points) >= num_pairs
    /\ \E pairing_result \in {None} \cup { Some(e) : e \in Fp12Samples } :
         /\ engine' = [called |-> TRUE, g1 |-> g1_points, g2 |-> g2_points,
                       result |-> pairing_result]
         /\ IF pairing_result = None
            THEN Return(Err("UnknownParameter"))
            ELSE Return(Ok(EncodeResult(pairing_result[1])))
    /\ UNCHANGED << bytes, rest, decoded, frobenius, points, fuzz >>

Next ==
    \/ PublicPair
    \/ ImplPair
    \/ ParseBaseField
    \/ ParseAB
    \/ ParseGroupOrder
    \/ DecodeFpNonResidue
    \/ FrobeniusFp2
    \/ DecodeFp2NonResidue
    \/ DecodeTwistType
    \/ FrobeniusFp6
    \/ FrobeniusFp12
    \/ BuildTwistCurve
    \/ DecodeX
    \/ DecodeXSign
    \/ DecodeNumPairs
    \/ DecodePair
    \/ EnginePair

Spec == Init /\ [][Next]_vars


\* ------------------------------------------------- the differential harness
HexDigits == << "0", "1", "2", "3", "4", "5", "6", "7",
                "8", "9", "a", "b", "c", "d", "e", "f" >>

\* hex::encode: two lower-case digits per byte, high nibble first.
RECURSIVE HexEncode(_)
HexEncode(bs) ==
    IF bs = <<>> THEN <<>>
    ELSE << HexDigits[(bs[1] \div 16) + 1], HexDigits[(bs[1] % 16) + 1] >>
             \o HexEncode(Tail(bs))

FuzzInputs == { <<>>, <<1>>, <<2, 1, 7>>, <<1, 1, 7, 0, 2, 255>> }
BackendOutcomes ==
    { Err("InputError"), Err("UnknownParameter"), Err("UnexpectedZero"),
      Ok(<<0>>), Ok(<<1>>) }

Describe(r) == IF r.kind = "Err" THEN <<r.err>> ELSE HexEncode(r.out)

\* Faulty variant: the outputs of two successful runs are not compared.
HarnessPanicsOnKindOnly(n, c) == (n.kind = "Err") # (c.kind = "Err")

\* The comparison of the two outcomes: TRUE when the harness panics.
HarnessPanics(n, c) ==
    IF n.kind = "Err"
    THEN c.kind # "Err"
    ELSE IF c.kind = "Err" THEN TRUE ELSE n.out # c.out

InitHarness ==
    /\ bytes = <<>>
    /\ pc = "idle"
    /\ rest = <<>>
    /\ result = NoResult
    /\ Undecoded
    /\ data \in FuzzInputs
    /\ native = NoResult
    /\ cpp = NoResult
    /\ harness = [at |-> "start", printed |-> <<>>]

RunNative ==
    /\ harness.at = "start"
    /\ native' \in BackendOutcomes
    /\ harness' = [harness EXCEPT !.at = "native_done"]
    /\ UNCHANGED << pipeline, data, cpp >>

RunCpp ==
    /\ harness.at = "native_done"
    /\ cpp' \in BackendOutcomes
    /\ harness' = [harness EXCEPT !.at = "compare"]
    /\ UNCHANGED << pipeline, data, native >>

Compare ==
    /\ harness.at = "compare"
    /\ IF HarnessPanics(native, cpp)
       THEN harness' = [at |-> "panicked",
                        printed |-> << HexEncode(data), Describe(native),
                                       Describe(cpp) >>]
       ELSE harness' = [at |-> "completed", printed |-> <<>>]
    /\ UNCHANGED << pipeline, data, native, cpp >>

NextHarness ==
    \/ RunNative
    \/ RunCpp
    \/ Compare

SpecHarness == InitHarness /\ [][NextHarness]_vars


\* ------------------------------------------------------------ wire layout
\* Offsets of the fields in a payload, as the decoder consumes them.  They
\* are meaningful once the bytes they read are present.
WireModulusLen(bs) == bs[CURVE_TYPE_LENGTH + 1]
OffA(bs) == CURVE_TYPE_LENGTH + BYTES_FOR_LENGTH_ENCODING + WireModulusLen(bs)
OffOrder(bs) == OffA(bs) + 2 * WireModulusLen(bs)
OffFpNonResidue(bs) ==
    OffOrder(bs) + BYTES_FOR_LENGTH_ENCODING + bs[OffOrder(bs) + 1]
OffFp2NonResidue(bs) == OffFpNonResidue(bs) + WireModulusLen(bs)
OffTwistType(bs) == OffFp2NonResidue(bs) + 2 * WireModulusLen(bs)
OffX(bs) == OffTwistType(bs) + TWIST_TYPE_LENGTH
OffXSign(bs) == OffX(bs) + BYTES_FOR_LENGTH_ENCODING + bs[OffX(bs) + 1]
OffNumPairs(bs) == OffXSign(bs) + SIGN_ENCODING_LENGTH
OffPairs(bs) == OffNumPairs(bs) + BYTES_FOR_LENGTH_ENCODING
OffPair(bs, i) == OffPairs(bs) + 6 * WireModulusLen(bs) * (i - 1)

\* The payload holds every byte of every field it declares.
Complete(bs) ==
    /\ Len(bs) >= CURVE_TYPE_LENGTH + BYTES_FOR_LENGTH_ENCODING
    /\ Len(bs) >= OffOrder(bs) + BYTES_FOR_LENGTH_ENCODING
    /\ Len(bs) >= OffX(bs) + BYTES_FOR_LENGTH_ENCODING
    /\ Len(bs) >= OffPairs(bs)
    /\ Len(bs) >= OffPair(bs, bs[OffNumPairs(bs) + 1] + 1)

\* The payload's modulus, A and B fields are present.
ModulusABPresent(bs) ==
    /\ Len(bs) >= CURVE_TYPE_LENGTH + BYTES_FOR_LENGTH_ENCODING
    /\ Len(bs) >= OffOrder(bs)
WireA(bs) == BigEndian(SubSeq(bs, OffA(bs) + 1, OffA(bs) + WireModulusLen(bs)))

\* The public entry point's pre-parse and limb dispatch accept the payload.
Dispatched(bs) ==
    /\ Len(bs) >= CURVE_TYPE_LENGTH
    /\ LET enc == parse_encodings(Drop(bs, CURVE_TYPE_LENGTH))
       IN /\ enc.ok
          /\ expand_for_modulus_and_group_limbs(Limbs(enc.modulus), Limbs(enc.order))

ErrorKinds == {"InputError", "UnknownParameter", "UnexpectedZero"}

\* ------------------------------------------------------------------ claims

\* C1: for every input whose curve_type byte is not the BLS12 tag, pair
\* returns InputError and never panics.
C1_NonBls12IsInputError ==
    (pc = "done" /\ Len(bytes) >= CURVE_TYPE_LENGTH /\ bytes[1] # BLS12)
        => result = Err("InputError")

C4_TruncatedIsInputError ==
    (pc = "done" /\ ~Complete(bytes)) => result = Err("InputError")

\* C5 as stated: every BLS12-tagged payload whose modulus, A and B fields
\* decode and whose A is not zero gives UnknownParameter.
C5_Original ==
    (pc = "done" /\ ModulusABPresent(bytes) /\ bytes[1] = BLS12 /\ WireA(bytes) # 0)
        => result = Err("UnknownParameter")

\* C5 (amended): every BLS12-tagged payload that the public entry point's
\* pre-parse of modulus, A, B and group order and its limb dispatch accept and
\* whose A is not zero gives UnknownParameter; pair_bls12 makes the check
\* before it decodes the group order, the non-residues, the twist type or any
\* point, and the engine is not called.
C5_NonZeroAIsUnknownParameter ==
    /\ (pc = "done" /\ Dispatched(bytes) /\ bytes[1] = BLS12 /\ WireA(bytes) # 0)
         => result = Err("UnknownParameter")
    /\ (pc \notin {"start", "impl", "base_field", "ab"} /\ Dispatched(bytes)
          /\ bytes[1] = BLS12 /\ WireA(bytes) # 0)
         => /\ pc = "done"
            /\ a_fp = WireA(bytes)
            /\ order = 0
            /\ g1_curve = None
            /\ g2_curve = None
            /\ twist_type = "none"
            /\ frobenius = [fp2 |-> "none", fp6 |-> "none", fp12 |-> "none"]
            /\ checks = <<>>
            /\ ~engine.called

C5_Witness ==
    /\ pc = "done"
    /\ a_fp # 0
    /\ result = Err("UnknownParameter")
    /\ Complete(bytes)

\* C6: once every field before twist_type has been decoded, a twist_type byte
\* that is neither the D nor the M tag gives UnknownParameter; the twist
\* curve is not built and the engine is not called.
C6_UnknownTwistType ==
    (twist_type # "none" /\ twist_byte \notin {TWIST_TYPE_D, TWIST_TYPE_M})
        => /\ pc = "done"
           /\ result = Err("UnknownParameter")
           /\ g2_curve = None
           /\ frobenius.fp6 = "none"
           /\ ~engine.called

C6_Witness ==
    /\ pc = "done"
    /\ twist_type = "unknown"
    /\ twist_byte = bytes[OffTwistType(bytes) + 1]
    /\ result = Err("UnknownParameter")

\* C7: a failed Frobenius-coefficient computation, at whichever tower level,
\* gives UnknownParameter.
C7_FrobeniusFailureIsUnknownParameter ==
    (frobenius.fp2 = "failed" \/ frobenius.fp6 = "failed" \/ frobenius.fp12 = "failed")
        => result = Err("UnknownParameter")

\* C8: the harness panics, having printed the hex-encoded input and both
\* outcomes, exactly when one backend fails and the other succeeds or both
\* succeed with different bytes; otherwise it completes.
C8_PanicIffDisagreement ==
    LET disagree ==
            \/ (native.kind = "Err" /\ cpp.kind = "Ok")
            \/ (native.kind = "Ok" /\ cpp.kind = "Err")
            \/ (native.kind = "Ok" /\ cpp.kind = "Ok" /\ native.out # cpp.out)
    IN /\ harness.at = "panicked" =>
            /\ disagree
            /\ harness.printed[1] = HexEncode(data)
            /\ Len(harness.printed[1]) = 2 * Len(data)
            /\ harness.printed[2] = Describe(native)
            /\ harness.printed[3] = Describe(cpp)
       /\ harness.at = "completed" => ~disagree

C8_Witness ==
    /\ harness.at = "panicked"
    /\ native = Ok(<<1>>)
    /\ cpp = Ok(<<0>>)
    /\ data = <<1, 1, 7, 0, 2, 255>>
    /\ harness.printed[1] = << "0", "1", "0", "1", "0", "7", "0", "0", "0", "2", "f", "f" >>

\* C9 as stated: for an M-type twist the twist curve is built with
\* B2 = B * non-residue for every non-residue, invertible or not.
C9_Original ==
    (twist_type = "M" /\ frobenius.fp12 = "ok" /\ pc # "twist_curve")
        => /\ g2_curve # None
           /\ g2_curve[1].b = Fp2MulByFp(fp2_non_residue, b_fp, modulus)

\* C9 (amended): the non-residue's inverse is computed, and required, for
\* both twist types: a non-invertible non-residue gives UnexpectedZero for a
\* D-type and for an M-type twist.  When the twist curve is built, its A is
\* the zero of Fp2 and its B satisfies B2 * non-residue = B (D-type) or
\* B2 = B * non-residue (M-type).
C9_TwistCoefficient ==
    /\ g2_curve # None =>
         /\ g2_curve[1].a = Fp2Zero
         /\ Fp2Inverse(fp2_non_residue, fp_non_residue, modulus) # None
         /\ twist_type = "D" =>
              Fp2Mul(g2_curve[1].b, fp2_non_residue, fp_non_residue, modulus)
                  = <<b_fp, 0>>
         /\ twist_type = "M" =>
              g2_curve[1].b = Fp2MulByFp(fp2_non_residue, b_fp, modulus)
    /\ (frobenius.fp12 = "ok" /\ pc # "twist_curve"
          /\ Fp2Inverse(fp2_non_residue, fp_non_residue, modulus) = None)
         => /\ pc = "done"
            /\ result = Err("UnexpectedZero")
            /\ g2_curve = None
    /\ result = Err("UnexpectedZero") =>
         /\ twist_type \in {"D", "M"}
         /\ Fp2Inverse(fp2_non_residue, fp_non_residue, modulus) = None

C9_Witness ==
    /\ g2_curve # None
    /\ twist_type = "D"
    /\ b_fp = 2
    /\ fp2_non_residue = <<1, 1>>
    /\ g2_curve[1].b = <<1, 6>>

\* C10 as stated: after the group order exactly one base-field element is
\* consumed and the next byte is read as twist_type.
C10_Original ==
    (pc = "twist_type")
        => rest = Drop(bytes, OffFpNonResidue(bytes) + modulus_len)

\* C10 (amended): the fields are consumed in wire order, each from the bytes
\* the previous one left: after the group order one base-field element (the
\* Fp2 non-residue), then one Fp2 element of two base-field elements (the Fp6
\* non-residue), then the twist_type byte, the length-prefixed loop
\* parameter, the x_sign byte, the pair_count byte and the point pairs.
C10_WireOrder ==
    /\ pc = "base_field" => rest = Drop(bytes, CURVE_TYPE_LENGTH)
    /\ pc = "ab" => rest = Drop(bytes, OffA(bytes))
    /\ pc = "group_order" => rest = Drop(bytes, OffOrder(bytes))
    /\ pc = "fp_non_residue" => rest = Drop(bytes, OffFpNonResidue(bytes))
    /\ pc \in {"frobenius_fp2", "fp2_non_residue"} =>
         /\ rest = Drop(bytes, OffFpNonResidue(bytes) + modulus_len)
         /\ fp_non_residue = decode_fp(Drop(bytes, OffFpNonResidue(bytes)), modulus_len).val
    /\ pc = "twist_type" =>
         /\ rest = Drop(bytes, OffFpNonResidue(bytes) + 3 * modulus_len)
         /\ fp2_non_residue[1] =
              decode_fp(Drop(bytes, OffFp2NonResidue(bytes)), modulus_len).val
         /\ fp2_non_residue[2] =
              decode_fp(Drop(bytes, OffFp2NonResidue(bytes) + modulus_len), modulus_len).val
    /\ pc \in {"frobenius_fp6", "frobenius_fp12", "twist_curve", "x"} =>
         /\ rest = Drop(bytes, OffX(bytes))
         /\ twist_byte = bytes[OffTwistType(bytes) + 1]
    /\ pc = "x_sign" =>
         /\ rest = Drop(bytes, OffXSign(bytes))
         /\ x = decode_biguint_with_length(Drop(bytes, OffX(bytes))).val
    /\ pc = "num_pairs" =>
         /\ rest = Drop(bytes, OffNumPairs(bytes))
         /\ x_is_negative = (bytes[OffXSign(bytes) + 1] = SIGN_MINUS)
    /\ pc = "pairs" =>
         /\ rest = Drop(bytes, OffPair(bytes, Len(g1_points) + 1))
         /\ num_pairs = bytes[OffNumPairs(bytes) + 1]
         /\ Len(g2_points) = Len(g1_points)

C10_Witness ==
    /\ pc = "pairs"
    /\ Len(g1_points) = 2
    /\ num_pairs = 2
    /\ rest = <<>>
    /\ x = 256

====
